---- MODULE Spec2Model ----
(***************************************************************************)
(* Model of src/app.rs of meso: the Yew dashboard that mounts four GetRisk *)
(* components and one GetTemp component, each of which spawns one fetch    *)
(* from its mount effect, and the OutlookButtons that switch the map image.*)
(***************************************************************************)
EXTENDS Integers, Sequences, FiniteSets, TLC

VARIABLES
    mounted,      \* the components that are in the rendered tree
    outlook_url,  \* AppState.outlook_url
    risk,         \* GetRisk: the `risk` use_state of each GetRisk component
    temps,        \* GetTemp: the `temps` use_state
    pc,           \* position of each component's mount effect / spawned task
    sent,         \* the requests each component has sent, as a list of URLs
    upstream,     \* what the awaited request of each task produced
    result,       \* the local `result` of each spawned task
    selections    \* number of onmouseenter callbacks handled

vars == <<mounted, outlook_url, risk, temps, pc, sent, upstream, result, selections>>

----------------------------------------------------------------------------
(* Bounds *)

MaxSelections == 2
MaxRequests == 2
MaxFeatures == 2
MaxDn == 8
MaxLines == 3

----------------------------------------------------------------------------
(* Option / Result values *)

None == [tag |-> "None"]
Some(v) == [tag |-> "Some", val |-> v]
Ok(v) == [tag |-> "Ok", val |-> v]
Err(e) == [tag |-> "Err", err |-> e]
NotYet == [tag |-> "NotYet"]

I32Min == -2147483647 - 1
I32Max == 2147483647

----------------------------------------------------------------------------
(* enum MapServer *)

MapServers == {"Day1Outlook", "Day1Tornado", "Day1Hail", "Day1Wind"}

get_common_name(ms) ==
    CASE ms = "Day1Outlook" -> "categorical"
      [] ms = "Day1Tornado" -> "tornado"
      [] ms = "Day1Hail" -> "hail"
      [] ms = "Day1Wind" -> "wind"

get_dn_swapped(ms) ==
    CASE ms = "Day1Outlook" -> 1
      [] ms = "Day1Tornado" -> 3
      [] ms = "Day1Hail" -> 7
      [] ms = "Day1Wind" -> 5

get_dn(ms) ==
    CASE ms = "Day1Outlook" -> 1
      [] ms = "Day1Tornado" -> 3
      [] ms = "Day1Hail" -> 5
      [] ms = "Day1Wind" -> 7

----------------------------------------------------------------------------
(* Components of App *)

Slots == MapServers \cup {"GetTemp"}
Components == Slots \cup {"OutlookButtons"}

\* The heading or label App renders next to each GetRisk component
AppLabel(ms) ==
    CASE ms = "Day1Outlook" -> "Categorical"
      [] ms = "Day1Tornado" -> "Tornado"
      [] ms = "Day1Wind" -> "Wind"
      [] ms = "Day1Hail" -> "Hail"

OutlookUrls == {"day1otlk.gif", "day1probotlk_torn.gif",
                "day1probotlk_wind.gif", "day1probotlk_hail.gif"}

AppStateNew == "day1otlk.gif"

----------------------------------------------------------------------------
(* Requests and responses *)

RiskUrl(ms) == [base |-> "ARCGIS_BASE_URL", layer |-> get_dn(ms)]
DaycastUrl == [base |-> "blend.mdl.nws.noaa.gov/nbm-text-new"]

SendErr == [tag |-> "SendErr"]
BodyErr == [tag |-> "BodyErr"]
Json(fs) == [tag |-> "Json", features |-> fs]
Text(t) == [tag |-> "Text", text |-> t]

fetch_risk_empty_err(resp) ==
    IF resp.tag = "SendErr" THEN Err("send")
    ELSE IF resp.tag = "BodyErr" THEN Err("json")
    ELSE IF Len(resp.features) > 0 THEN Ok(Head(resp.features))
    ELSE Err("no features")

fetch_risk_last(resp) ==
    IF resp.tag = "SendErr" THEN Err("send")
    ELSE IF resp.tag = "BodyErr" THEN Err("json")
    ELSE IF Len(resp.features) > 0 THEN Ok(resp.features[Len(resp.features)])
    ELSE Ok(0)

\* fetch_risk from the point where the request and the JSON decoding return
fetch_risk(resp) ==
    IF resp.tag = "SendErr" THEN Err("send")
    ELSE IF resp.tag = "BodyErr" THEN Err("json")
    ELSE IF Len(resp.features) > 0 THEN Ok(Head(resp.features))
    ELSE Ok(0)

----------------------------------------------------------------------------
(* Text handling of fetch_daycast and parse_temps.  A text is a sequence   *)
(* of one-character strings.                                               *)

Whitespace == {" ", "\t", "\n", "\r"}
Digits == {"0", "1", "2", "3", "4", "5", "6", "7", "8", "9"}

DigitVal(c) ==
    CASE c = "0" -> 0 [] c = "1" -> 1 [] c = "2" -> 2 [] c = "3" -> 3
      [] c = "4" -> 4 [] c = "5" -> 5 [] c = "6" -> 6 [] c = "7" -> 7
      [] c = "8" -> 8 [] c = "9" -> 9

\* The k-th smallest element of a set of positions
Nth(S, k) == CHOOSE i \in S : Cardinality({j \in S : j <= i}) = k

\* str::lines: split at "\n", drop one trailing "\r" of each line, and
\* yield no final empty line
Lines(t) ==
    LET nl == {i \in 1..Len(t) : t[i] = "\n"}
        n == Cardinality(nl) + (IF t # <<>> /\ t[Len(t)] # "\n" THEN 1 ELSE 0)
        first(k) == IF k = 1 THEN 1 ELSE Nth(nl, k - 1) + 1
        last(k) == IF k <= Cardinality(nl) THEN Nth(nl, k) - 1 ELSE Len(t)
        strip(k) == IF last(k) >= first(k) /\ t[last(k)] = "\r" THEN 1 ELSE 0
    IN [k \in 1..n |-> SubSeq(t, first(k), last(k) - strip(k))]

\* line.trim().split_whitespace().collect(): the maximal runs of characters
\* that are not whitespace, in order
SplitWhitespace(l) ==
    LET starts == {i \in 1..Len(l) : l[i] \notin Whitespace
                                      /\ (i = 1 \/ l[i - 1] \in Whitespace)}
        ends == {i \in 1..Len(l) : l[i] \notin Whitespace
                                    /\ (i = Len(l) \/ l[i + 1] \in Whitespace)}
    IN [k \in 1..Cardinality(starts) |-> SubSeq(l, Nth(starts, k), Nth(ends, k))]

\* The digits accumulated as a negative number, as i32 holds one more
\* negative value than positive ones; ok is cleared on overflow.
RECURSIVE DigitsValue(_, _)
DigitsValue(ds, acc) ==
    IF ds = <<>> \/ ~acc.ok THEN acc
    ELSE LET d == DigitVal(Head(ds))
         IN IF acc.val < (I32Min + d + 9) \div 10
            THEN [ok |-> FALSE, val |-> 0]
            ELSE DigitsValue(Tail(ds), [ok |-> TRUE, val |-> 10 * acc.val - d])

\* str::parse::<i32>().ok()
ParseI32(tok) ==
    LET signed == tok # <<>> /\ Head(tok) \in {"+", "-"}
        neg == signed /\ Head(tok) = "-"
        ds == IF signed THEN Tail(tok) ELSE tok
    IN IF ds = <<>> \/ \E i \in 1..Len(ds) : ds[i] \notin Digits THEN None
       ELSE LET n == DigitsValue(ds, [ok |-> TRUE, val |-> 0])
            IN IF ~n.ok THEN None
               ELSE IF neg THEN Some(n.val)
               ELSE IF n.val = I32Min THEN None
               ELSE Some(0 - n.val)

TXN == <<"T", "X", "N">>

RECURSIVE ParseLoopSkipShort(_, _)
ParseLoopSkipShort(lines, st) ==
    IF lines = <<>> THEN st
    ELSE LET parts == SplitWhitespace(Head(lines))
         IN IF parts # <<>> /\ parts[1] = TXN /\ Len(parts) >= 3
            THEN ParseLoopSkipShort(Tail(lines),
                                    [st EXCEPT !.low = ParseI32(parts[2]),
                                               !.high = ParseI32(parts[3])])
            ELSE ParseLoopSkipShort(Tail(lines), st)

\* The loop of parse_temps.  st is [high, low, ret]: ret is set when a `?`
\* returns None from the function.
RECURSIVE ParseLoop(_, _)
ParseLoop(lines, st) ==
    IF lines = <<>> \/ st.ret THEN st
    ELSE LET parts == SplitWhitespace(Head(lines))
         IN IF parts # <<>> /\ parts[1] = TXN
            THEN IF Len(parts) < 2 THEN [st EXCEPT !.ret = TRUE]
                 ELSE IF Len(parts) < 3
                      THEN [st EXCEPT !.low = ParseI32(parts[2]), !.ret = TRUE]
                 ELSE ParseLoop(Tail(lines),
                                [st EXCEPT !.low = ParseI32(parts[2]),
                                           !.high = ParseI32(parts[3])])
            ELSE ParseLoop(Tail(lines), st)

parse_temps_swapped(lines) ==
    LET st == ParseLoop(lines, [high |-> None, low |-> None, ret |-> FALSE])
    IN IF st.ret THEN None
       ELSE IF st.high.tag = "Some" /\ st.low.tag = "Some"
            THEN Some(<<st.low.val, st.high.val>>)
       ELSE None

parse_temps_default(lines) ==
    LET st == ParseLoop(lines, [high |-> None, low |-> None, ret |-> FALSE])
    IN IF st.ret THEN None
       ELSE IF st.high.tag = "Some" /\ st.low.tag = "Some"
            THEN Some(<<st.high.val, st.low.val>>)
       ELSE Some(<<0, 0>>)

parse_temps(lines) ==
    LET st == ParseLoop(lines, [high |-> None, low |-> None, ret |-> FALSE])
    IN IF st.ret THEN None
       ELSE IF st.high.tag = "Some" /\ st.low.tag = "Some"
            THEN Some(<<st.high.val, st.low.val>>)
       ELSE None

\* fetch_daycast from the point where the request and the body read return
fetch_daycast(resp) ==
    IF resp.tag = "SendErr" THEN Err("send")
    ELSE IF resp.tag = "BodyErr" THEN Err("text")
    ELSE LET t == parse_temps(Lines(resp.text))
         IN IF t.tag = "Some" THEN Ok(t.val) ELSE Err("Temps not found")

----------------------------------------------------------------------------
(* The view *)

GetRiskHtml(ms, r) ==
    IF r.tag = "Some"
    THEN LET risk_name == get_common_name(ms)
             color == risk_name \o "-" \o ToString(r.val)
         IN IF risk_name = "categorical"
            THEN IF r.val = 0 THEN [class |-> color, text |-> "NONE"]
                 ELSE [class |-> color, text |-> ToString(r.val)]
            ELSE [class |-> color, text |-> ToString(r.val) \o "%"]
    ELSE [class |-> "", text |-> "None"]

GetTempHtml(t) ==
    IF t[1].tag = "Some" /\ t[2].tag = "Some"
    THEN <<ToString(t[1].val) \o "F", ToString(t[2].val) \o "F">>
    ELSE <<"-", "-">>

----------------------------------------------------------------------------
(* Responses the upstream services are taken to produce *)

HazardSamples == {SendErr, BodyErr, Json(<<>>), Json(<<4>>), Json(<<15>>)}

TextTxn5578 == <<"T","X","N"," ","5","5"," ","7","8">>
TextTwoTxn == <<"T","X","N"," ","4","0"," ","6","1","\n",
                " ","T","X","N"," ","-","3"," ","1","2","\r","\n">>
TextNoTxn == <<"F","H","R"," ","1","2","\n","X","N","D"," ","3">>
TextShortTxn == <<"T","X","N"," ","5","5","\n","T","X","N"," ","1"," ","2">>

DaycastSamples == {SendErr, BodyErr, Text(TextTxn5578), Text(TextTwoTxn),
                   Text(TextNoTxn), Text(TextShortTxn)}

DnValues == (-1..MaxDn) \cup {15, 99}

RECURSIVE SeqsUpTo(_, _)
SeqsUpTo(S, n) ==
    IF n = 0 THEN {<<>>}
    ELSE LET shorter == SeqsUpTo(S, n - 1)
         IN shorter \cup {Append(s, x) : s \in shorter, x \in S}

HazardResponses == {SendErr, BodyErr} \cup {Json(fs) : fs \in SeqsUpTo(DnValues, MaxFeatures)}

\* Lines a forecast text is made of: well-formed records, records with too
\* few tokens, records with a token that is no integer, lines that are no
\* record, a record with surrounding whitespace and a fourth token, and the
\* empty line
LineTxn5578 == <<"T","X","N"," ","5","5"," ","7","8">>
LineTxn4061 == <<"T","X","N"," ","4","0"," ","6","1">>
LineTxnShort == <<"T","X","N"," ","5","5">>
LineTxnBare == <<"T","X","N">>
LineTxnBadLow == <<"T","X","N"," ","a","b"," ","1","2">>
LineTxnBadHigh == <<"T","X","N"," ","7"," ","x">>
LineFhr == <<"F","H","R"," ","1","2"," ","1","3">>
LineXtxn == <<"X","T","X","N"," ","1"," ","2">>
LineTxnPadded == <<" ","T","X","N"," ","-","3"," ","1","2"," ","9","\r">>
LineEmpty == <<>>

LineSamples == {LineTxn5578, LineTxn4061, LineTxnShort, LineTxnBare, LineTxnBadLow,
                LineTxnBadHigh, LineFhr, LineXtxn, LineTxnPadded, LineEmpty}

\* The lines ls as one text, with "\n" between them
RECURSIVE JoinLines(_)
JoinLines(ls) ==
    IF ls = <<>> THEN <<>>
    ELSE IF Len(ls) = 1 THEN ls[1]
    ELSE ls[1] \o <<"\n">> \o JoinLines(Tail(ls))

DaycastResponses ==
    {SendErr, BodyErr} \cup {Text(JoinLines(ls)) : ls \in SeqsUpTo(LineSamples, MaxLines)}

\* fetch_daycast on every modelled response, evaluated once
DaycastOutcome ==
    [resp \in DaycastSamples \cup DaycastResponses |-> fetch_daycast(resp)]

----------------------------------------------------------------------------
(* Hooks *)

\* A re-render of the components cs: use_effect_with((), ..) compares the
\* dependency () with the previous one and does not run the effect again.
RerenderRerunsEffect(p, cs) ==
    [k \in DOMAIN p |-> IF k \in cs /\ p[k] # "mounted" THEN "mounted" ELSE p[k]]

Rerender(p, cs) == p

\* risk.set(v) on the handle of component ms
SetRiskShared(ms, v) == [k \in MapServers |-> v]

SetRisk(ms, v) == [risk EXCEPT ![ms] = v]

\* temps.set((Some(r.0), Some(r.1)))
SetTempsHighOnly(r) == <<Some(r[1]), None>>

SetTemps(r) == <<Some(r[1]), Some(r[2])>>

\* A task spawned with spawn_local resumes as soon as its own awaited
\* request has returned.
RunnableInOrder(k) ==
    /\ pc[k] = "inflight"
    /\ (k # "GetTemp" /\ "GetTemp" \in mounted) => pc["GetTemp"] = "done"

RunnableUntilSelection(k) == pc[k] = "inflight" /\ selections = 0

Runnable(k) == pc[k] = "inflight"

\* The spawned task ends after its one fetch, whatever the result was
AfterResultRetry(r) == IF r.tag = "Err" THEN "mounted" ELSE "done"

AfterResult(r) == "done"

\* The first render and the mount effects it schedules run to their first
\* await before the browser delivers any mouse event.
EffectsPending == \E k \in Slots \cap mounted : pc[k] = "mounted"

----------------------------------------------------------------------------
(* Actions *)

InitState(ms) ==
    /\ mounted = ms
    /\ outlook_url = AppStateNew
    /\ risk = [k \in MapServers |-> None]
    /\ temps = <<None, None>>
    /\ pc = [k \in Slots |-> "mounted"]
    /\ sent = [k \in Slots |-> <<>>]
    /\ upstream = [k \in Slots |-> NotYet]
    /\ result = [k \in Slots |-> NotYet]
    /\ selections = 0

\* App after its first render
Init == InitState(Components)

\* GetRisk: the mount effect spawns the task, which sends its request
GetRiskEffect(ms) ==
    /\ ms \in mounted
    /\ pc[ms] = "mounted"
    /\ Len(sent[ms]) < MaxRequests
    /\ sent' = [sent EXCEPT ![ms] = Append(@, RiskUrl(ms))]
    /\ pc' = [pc EXCEPT ![ms] = "inflight"]
    /\ UNCHANGED <<mounted, outlook_url, risk, temps, upstream, result, selections>>

\* GetRisk: the task resumes with the response resp and finishes
GetRiskResume(ms, resp) ==
    /\ ms \in mounted
    /\ Runnable(ms)
    /\ LET r == fetch_risk(resp)
       IN /\ upstream' = [upstream EXCEPT ![ms] = resp]
          /\ result' = [result EXCEPT ![ms] = r]
          /\ IF r.tag = "Ok"
             THEN /\ risk' = SetRisk(ms, Some(r.val))
                  /\ pc' = Rerender([pc EXCEPT ![ms] = AfterResult(r)], {ms})
             ELSE /\ risk' = risk
                  /\ pc' = [pc EXCEPT ![ms] = AfterResult(r)]
    /\ UNCHANGED <<mounted, outlook_url, temps, sent, selections>>

\* GetTemp: the mount effect spawns the task, which sends its request
GetTempEffect ==
    /\ "GetTemp" \in mounted
    /\ pc["GetTemp"] = "mounted"
    /\ Len(sent["GetTemp"]) < MaxRequests
    /\ sent' = [sent EXCEPT !["GetTemp"] = Append(@, DaycastUrl)]
    /\ pc' = [pc EXCEPT !["GetTemp"] = "inflight"]
    /\ UNCHANGED <<mounted, outlook_url, risk, temps, upstream, result, selections>>

\* GetTemp: the task resumes with the response resp and finishes
GetTempResume(resp) ==
    /\ "GetTemp" \in mounted
    /\ Runnable("GetTemp")
    /\ LET r == DaycastOutcome[resp]
       IN /\ upstream' = [upstream EXCEPT !["GetTemp"] = resp]
          /\ result' = [result EXCEPT !["GetTemp"] = r]
          /\ IF r.tag = "Ok"
             THEN /\ temps' = SetTemps(r.val)
                  /\ pc' = Rerender([pc EXCEPT !["GetTemp"] = AfterResult(r)], {"GetTemp"})
             ELSE /\ temps' = temps
                  /\ pc' = [pc EXCEPT !["GetTemp"] = AfterResult(r)]
    /\ UNCHANGED <<mounted, outlook_url, risk, sent, selections>>

change_outlook_stale(src) ==
    /\ "OutlookButtons" \in mounted
    /\ ~EffectsPending
    /\ selections < MaxSelections
    /\ outlook_url' = IF selections = 0 THEN src ELSE outlook_url
    /\ selections' = selections + 1
    /\ pc' = Rerender(pc, mounted)
    /\ UNCHANGED <<mounted, risk, temps, sent, upstream, result>>

\* OutlookButtons: the onmouseenter callback made by change_outlook(src)
change_outlook(src) ==
    /\ "OutlookButtons" \in mounted
    /\ ~EffectsPending
    /\ selections < MaxSelections
    /\ outlook_url' = src
    /\ selections' = selections + 1
    /\ pc' = Rerender(pc, mounted)
    /\ UNCHANGED <<mounted, risk, temps, sent, upstream, result>>

Next ==
    \/ \E ms \in MapServers : GetRiskEffect(ms)
    \/ \E ms \in MapServers, resp \in HazardSamples : GetRiskResume(ms, resp)
    \/ GetTempEffect
    \/ \E resp \in DaycastSamples : GetTempResume(resp)
    \/ \E src \in OutlookUrls : change_outlook(src)

Spec == Init /\ [][Next]_vars

\* One GetRisk component mounted on its own, over all modelled responses
InitRisk == \E ms \in MapServers : InitState({ms})

NextRisk ==
    \/ \E ms \in MapServers : GetRiskEffect(ms)
    \/ \E ms \in MapServers, resp \in HazardResponses : GetRiskResume(ms, resp)

SpecRisk == InitRisk /\ [][NextRisk]_vars

\* The GetTemp component mounted on its own, over all modelled responses
InitTemp == InitState({"GetTemp"})

NextTemp ==
    \/ GetTempEffect
    \/ \E resp \in DaycastResponses : GetTempResume(resp)

SpecTemp == InitTemp /\ [][NextTemp]_vars

\* App with the scheduling of the spawned tasks: a request that is in flight
\* returns, and the task that awaits it is then run.
Fairness ==
    /\ \A ms \in MapServers :
          WF_vars(\E resp \in HazardSamples : GetRiskResume(ms, resp))
    /\ WF_vars(\E resp \in DaycastSamples : GetTempResume(resp))

SpecFair == Init /\ [][Next]_vars /\ Fairness

----------------------------------------------------------------------------
(* Properties *)

\* What a slot holds for the view
SlotContent(k) == IF k = "GetTemp" THEN temps ELSE risk[k]

\* What a slot holds before its fetch has finished
PendingContent(k) == IF k = "GetTemp" THEN <<None, None>> ELSE None

HazardsInApp == <<"Day1Outlook", "Day1Tornado", "Day1Wind", "Day1Hail">>

\* C1: an outlook selection handled while fetches are in flight leaves every
\* fetch where it was (no restart, no second request, no change of what the
\* slot holds), and what a finished slot holds is fixed by the response its
\* own request received.
C1_SelectionLeavesFetches ==
    /\ [][selections' # selections =>
            UNCHANGED <<pc, sent, upstream, result, risk, temps>>]_vars
    /\ [](\A k \in MapServers :
            pc[k] = "done" =>
                risk[k] = IF upstream[k].tag = "Json"
                          THEN (IF upstream[k].features = <<>> THEN Some(0)
                                ELSE Some(upstream[k].features[1]))
                          ELSE None)

\* C1 witness: a selection was handled while the categorical fetch was in
\* flight (no selection is handled before the requests are sent), and the
\* tornado slot has resolved to the value its response carried.
C1_Witness ==
    /\ selections >= 1
    /\ outlook_url # AppStateNew
    /\ pc["Day1Outlook"] = "inflight"
    /\ upstream["Day1Tornado"] = Json(<<15>>)
    /\ risk["Day1Tornado"] = Some(15)

\* C2: the step in which one fetch finishes changes only that fetch's slot:
\* the other slots, the other tasks and the outlook selection stay as they
\* were.
C2_CompletionTouchesOwnSlot ==
    [][\A k \in Slots :
          (pc[k] = "inflight" /\ pc'[k] = "done") =>
              /\ outlook_url' = outlook_url
              /\ \A j \in Slots \ {k} :
                    /\ SlotContent(j)' = SlotContent(j)
                    /\ pc'[j] = pc[j]
                    /\ result'[j] = result[j]]_vars

\* C2 witness: one hazard fetch has resolved while the other four fetches
\* are still in flight with their slots untouched.
C2_Witness ==
    /\ pc["Day1Hail"] = "done"
    /\ risk["Day1Hail"] = Some(15)
    /\ \A j \in Slots \ {"Day1Hail"} :
          pc[j] = "inflight" /\ SlotContent(j) = PendingContent(j)

\* C3: a fetch that ended in a transport or decode failure leaves its slot
\* in a state of its own: not what a pending slot holds and not a resolved
\* value.
C3_FailureIsDistinct ==
    \A k \in Slots \cap mounted :
        (pc[k] = "done" /\ result[k].tag = "Err") =>
            /\ SlotContent(k) # PendingContent(k)
            /\ k \in MapServers =>
                  /\ risk[k].tag # "Some"
                  /\ GetRiskHtml(k, risk[k]) # GetRiskHtml(k, None)

\* C4: with hazard #1 resolved to Slight (4), #2 failed on the network, #3
\* resolved to 15 percent and #4 still in flight, the four slots show a
\* resolved 4, a failure, a resolved 15 and a pending slot, the failure
\* being told apart from the pending slot.
C4_SnapshotShowsFourStates ==
    ( /\ result[HazardsInApp[1]] = Ok(4)
      /\ result[HazardsInApp[2]] = Err("send")
      /\ result[HazardsInApp[3]] = Ok(15)
      /\ pc[HazardsInApp[4]] = "inflight" )
    => /\ risk[HazardsInApp[1]] = Some(4)
       /\ risk[HazardsInApp[3]] = Some(15)
       /\ risk[HazardsInApp[4]] = None
       /\ risk[HazardsInApp[2]].tag # "Some"
       /\ risk[HazardsInApp[2]] # risk[HazardsInApp[4]]

\* C5: a slot moves once, from pending to its final content, in the step
\* that finishes its fetch; after that step no event changes the task, its
\* result or what the slot holds.
C5_SlotsAreTerminal ==
    [][\A k \in Slots :
          /\ pc[k] = "done" =>
                /\ pc'[k] = "done"
                /\ result'[k] = result[k]
                /\ SlotContent(k)' = SlotContent(k)
          /\ SlotContent(k)' # SlotContent(k) =>
                (pc[k] = "inflight" /\ pc'[k] = "done")]_vars

\* C5 witness: the categorical slot resolved and the forecast slot failed,
\* and selections were handled with both slots still holding that content.
C5_Witness ==
    /\ selections = MaxSelections
    /\ pc["Day1Outlook"] = "done" /\ risk["Day1Outlook"] = Some(4)
    /\ pc["GetTemp"] = "done" /\ result["GetTemp"].tag = "Err"
    /\ temps = <<None, None>>
    /\ pc["Day1Wind"] = "done"

\* Some response lets the in-flight fetch of slot k finish with a value
ResolveNow(k) ==
    IF k = "GetTemp"
    THEN \E resp \in DaycastSamples :
            GetTempResume(resp) /\ result'["GetTemp"].tag = "Ok"
    ELSE \E resp \in HazardSamples :
            GetRiskResume(k, resp) /\ result'[k].tag = "Ok"

\* C6: a fetch in flight never waits for another one: whatever the other
\* slots are (in flight, failed or resolved), it can resolve in the next
\* step; and the five requests go out without any of them having returned.
C6_FetchesAreIndependent ==
    \A k \in Slots \cap mounted : pc[k] = "inflight" => ENABLED ResolveNow(k)

\* C6 witness: the categorical slot resolved and the forecast slot resolved
\* while the tornado fetch had failed and the hail fetch was still in
\* flight.
C6_Witness ==
    /\ result["Day1Tornado"].tag = "Err"
    /\ pc["Day1Hail"] = "inflight"
    /\ result["Day1Outlook"].tag = "Ok"
    /\ result["GetTemp"].tag = "Ok"
    /\ pc["Day1Wind"] = "inflight"

\* C7: every slot sends exactly one request: none before its mount effect
\* ran, one from then on, also after a failure, a re-render or a selection.
C7_OneRequestPerSlot ==
    \A k \in Slots \cap mounted :
        Len(sent[k]) = IF pc[k] = "mounted" THEN 0 ELSE 1

\* C7 witness: all five fetches are over, two of them failed, selections
\* were handled, and five requests were sent.
C7_Witness ==
    /\ \A k \in Slots : pc[k] = "done" /\ Len(sent[k]) = 1
    /\ result["Day1Hail"].tag = "Err"
    /\ result["GetTemp"].tag = "Err"
    /\ selections >= 1

\* The layer each label queries, as the hazard table states it
StatedLayer(label) ==
    CASE label = "Categorical" -> 1
      [] label = "Tornado" -> 3
      [] label = "Wind" -> 5
      [] label = "Hail" -> 7

\* The same table with the layers of wind and hail exchanged
AmendedLayer(label) ==
    CASE label = "Categorical" -> 1
      [] label = "Tornado" -> 3
      [] label = "Wind" -> 7
      [] label = "Hail" -> 5

LabelName(label) ==
    CASE label = "Categorical" -> "categorical"
      [] label = "Tornado" -> "tornado"
      [] label = "Wind" -> "wind"
      [] label = "Hail" -> "hail"

\* C8 as stated: the request of the hazard under each label goes to layer
\* 1 (Categorical), 3 (Tornado), 5 (Wind), 7 (Hail), and the hazard's name
\* is the label in lower case.
C8_StatedLayers ==
    \A ms \in MapServers :
        sent[ms] # <<>> =>
            /\ sent[ms][1].layer = StatedLayer(AppLabel(ms))
            /\ get_common_name(ms) = LabelName(AppLabel(ms))

\* C8 amended: the request of the hazard under each label goes to layer
\* 1 (Categorical), 3 (Tornado), 7 (Wind), 5 (Hail), and the hazard's name
\* is the label in lower case.
C8_AmendedLayers ==
    \A ms \in MapServers :
        sent[ms] # <<>> =>
            /\ sent[ms][1].layer = AmendedLayer(AppLabel(ms))
            /\ get_common_name(ms) = LabelName(AppLabel(ms))

\* C8 witness: the four hazard requests have been sent
C8_Witness == \A ms \in MapServers : Len(sent[ms]) = 1

CategoryLabel(dn) ==
    CASE dn = 2 -> "THUNDERSTORMS"
      [] dn = 3 -> "MARGINAL"
      [] dn = 4 -> "SLIGHT"
      [] dn = 5 -> "ENHANCED"
      [] dn = 6 -> "MODERATE"
      [] dn = 7 -> "HIGH"

\* The categorical component has finished on a response with a first feature
CategoricalFirstDn(ms) ==
    /\ ms \in mounted
    /\ get_common_name(ms) = "categorical"
    /\ pc[ms] = "done"
    /\ upstream[ms].tag = "Json"
    /\ upstream[ms].features # <<>>

\* C9: a categorical response whose first feature has a dn in 2..7 resolves
\* the slot to that ordinal and is displayed with the label of that
\* category.
C9_CategoryLabels ==
    \A ms \in MapServers :
        (CategoricalFirstDn(ms) /\ upstream[ms].features[1] \in 2..7) =>
            /\ risk[ms] = Some(upstream[ms].features[1])
            /\ GetRiskHtml(ms, risk[ms]).text = CategoryLabel(upstream[ms].features[1])

\* C10: a categorical response whose first feature has a dn outside 2..7
\* makes the fetch fail, and the slot does not resolve to a risk value.
C10_UnknownCategoryFails ==
    \A ms \in MapServers :
        (CategoricalFirstDn(ms) /\ upstream[ms].features[1] \notin 2..7) =>
            /\ result[ms].tag = "Err"
            /\ risk[ms].tag # "Some"

\* A GetRisk component has finished on a decoded response
RiskDoneOnJson(ms) ==
    /\ ms \in mounted
    /\ pc[ms] = "done"
    /\ upstream[ms].tag = "Json"

\* C11: for tornado, wind and hail a response with no features resolves the
\* slot to 0 percent: the fetch succeeds with 0 and "0%" is displayed.
C11_NoFeaturesIsZeroPercent ==
    \A ms \in MapServers :
        (RiskDoneOnJson(ms) /\ get_common_name(ms) # "categorical"
            /\ upstream[ms].features = <<>>) =>
            /\ result[ms] = Ok(0)
            /\ risk[ms] = Some(0)
            /\ GetRiskHtml(ms, risk[ms]).text = "0%"

\* C11 witness: the tornado fetch finished on a response without features
C11_Witness ==
    /\ RiskDoneOnJson("Day1Tornado")
    /\ upstream["Day1Tornado"].features = <<>>
    /\ risk["Day1Tornado"] = Some(0)

\* C12: for the categorical kind a response with no features resolves the
\* slot to the no-risk value shown as NONE, a success that is none of the
\* six categories, and a response whose first feature has a dn never gives
\* that value.
C12_NoneOnlyWithoutFeatures ==
    \A ms \in MapServers :
        (RiskDoneOnJson(ms) /\ get_common_name(ms) = "categorical") =>
            IF upstream[ms].features = <<>>
            THEN /\ result[ms].tag = "Ok"
                 /\ risk[ms].tag = "Some" /\ risk[ms].val \notin 2..7
                 /\ GetRiskHtml(ms, risk[ms]).text = "NONE"
            ELSE GetRiskHtml(ms, risk[ms]).text # "NONE"

\* The GetTemp task has finished on a text body
TempDoneOnText ==
    /\ "GetTemp" \in mounted
    /\ pc["GetTemp"] = "done"
    /\ upstream["GetTemp"].tag = "Text"

TempLines == Lines(upstream["GetTemp"].text)

IsTxn(line) ==
    LET parts == SplitWhitespace(line) IN parts # <<>> /\ parts[1] = TXN

IsShortTxn(line) == IsTxn(line) /\ Len(SplitWhitespace(line)) < 3

TxnLines(ls) == SelectSeq(ls, IsTxn)

\* The tokens of the last line of ls that is a TXN record
LastTxn(ls) == SplitWhitespace(TxnLines(ls)[Len(TxnLines(ls))])

\* What one record on its own decodes to
FromRecord(parts) ==
    IF Len(parts) >= 3 /\ ParseI32(parts[2]) # None /\ ParseI32(parts[3]) # None
    THEN Ok(<<ParseI32(parts[3]).val, ParseI32(parts[2]).val>>)
    ELSE Err("Temps not found")

\* C13: for a text with at least one TXN line the decoded forecast is what
\* the last TXN line alone decodes to, whatever the earlier TXN lines are.
C13_LastTxnLineDecides ==
    (TempDoneOnText /\ TxnLines(TempLines) # <<>>) =>
        result["GetTemp"] = FromRecord(LastTxn(TempLines))

\* C14: the second token of a TXN line is the low and the third the high
\* temperature, and the pair is (high, low): "TXN 55 78" alone gives high 78
\* and low 55, a text with one well-formed TXN line gives that line's third
\* and second token, and lines whose first token is not TXN do not count.
C14_LowThenHigh ==
    TempDoneOnText =>
        /\ upstream["GetTemp"].text = LineTxn5578 =>
              /\ result["GetTemp"] = Ok(<<78, 55>>)
              /\ temps = <<Some(78), Some(55)>>
        /\ (Len(TxnLines(TempLines)) = 1 /\ Len(LastTxn(TempLines)) >= 3
               /\ ParseI32(LastTxn(TempLines)[2]) # None
               /\ ParseI32(LastTxn(TempLines)[3]) # None) =>
              /\ temps[1] = ParseI32(LastTxn(TempLines)[3])
              /\ temps[2] = ParseI32(LastTxn(TempLines)[2])
        /\ LET t == parse_temps(TxnLines(TempLines))
           IN result["GetTemp"] =
                 IF t.tag = "Some" THEN Ok(t.val) ELSE Err("Temps not found")

\* C14 witness: the text is the padded record " TXN -3 12 9" between two
\* lines that are no record, and the slot holds high 12 and low -3.
C14_Witness ==
    /\ TempDoneOnText
    /\ upstream["GetTemp"].text = JoinLines(<<LineXtxn, LineTxnPadded, LineFhr>>)
    /\ temps = <<Some(12), Some(-3)>>

\* C15: decoding ends in the error value, and the slot gets no forecast,
\* for every text without a TXN line (the empty text included) and for every
\* text whose last TXN line has fewer than three tokens or a low or high
\* token that is no integer; every response ends in a value or an error.
C15_UndecodableIsError ==
    /\ ("GetTemp" \in mounted /\ pc["GetTemp"] = "done") =>
          result["GetTemp"].tag \in {"Ok", "Err"}
    /\ (TempDoneOnText
          /\ \/ TxnLines(TempLines) = <<>>
             \/ Len(LastTxn(TempLines)) < 3
             \/ ParseI32(LastTxn(TempLines)[2]) = None
             \/ ParseI32(LastTxn(TempLines)[3]) = None) =>
          /\ result["GetTemp"] = Err("Temps not found")
          /\ temps = <<None, None>>

\* C15 witness: a well-formed record followed by a record whose low token
\* is no integer ended in the error.
C15_Witness ==
    /\ TempDoneOnText
    /\ upstream["GetTemp"].text = JoinLines(<<LineTxn4061, LineTxnBadLow>>)
    /\ result["GetTemp"].tag = "Err"

\* C16: the forecast slot holds both temperatures or none of them
C16_BothOrNeither ==
    "GetTemp" \in mounted => ((temps[1] = None) <=> (temps[2] = None))

\* C16 witness: of the only record the high token alone is an integer, and
\* the slot holds no temperature.
C16_Witness ==
    /\ TempDoneOnText
    /\ upstream["GetTemp"].text = LineTxnBadLow
    /\ temps = <<None, None>>

\* C17: the outlook selection is always one of the four map images; it is
\* the categorical map until the first selection, every selection sets it to
\* the image selected, and nothing else changes it.
C17_SelectionIsLastSelected ==
    /\ [](outlook_url \in {"day1otlk.gif", "day1probotlk_torn.gif",
                           "day1probotlk_wind.gif", "day1probotlk_hail.gif"})
    /\ [](selections = 0 => outlook_url = "day1otlk.gif")
    /\ [][\A src \in OutlookUrls : change_outlook(src) => outlook_url' = src]_vars
    /\ [][selections' = selections => outlook_url' = outlook_url]_vars

\* C17 witness: after two selections the hail map is selected
C17_Witness ==
    /\ selections = 2
    /\ outlook_url = "day1probotlk_hail.gif"

\* C18: with more than one feature in the response the slot resolves to the
\* dn of the first feature.
C18_FirstFeatureOnly ==
    \A ms \in MapServers :
        (RiskDoneOnJson(ms) /\ Len(upstream[ms].features) > 1) =>
            /\ result[ms] = Ok(upstream[ms].features[1])
            /\ risk[ms] = Some(upstream[ms].features[1])

\* C18 witness: the wind fetch finished on the features 15 and 4 and the
\* slot holds 15.
C18_Witness ==
    /\ RiskDoneOnJson("Day1Wind")
    /\ upstream["Day1Wind"].features = <<15, 4>>
    /\ risk["Day1Wind"] = Some(15)

C20_ShortTxnLineEndsScan ==
    TempDoneOnText =>
        IF \E i \in 1..Len(TempLines) : IsShortTxn(TempLines[i])
        THEN /\ result["GetTemp"] = Err("Temps not found")
             /\ temps = <<None, None>>
        ELSE TxnLines(TempLines) # <<>> =>
                result["GetTemp"] = FromRecord(LastTxn(TempLines))

\* C20 witness: a short TXN line between two well-formed ones ended the
\* decoding without a forecast.
C20_Witness ==
    /\ TempDoneOnText
    /\ upstream["GetTemp"].text = JoinLines(<<LineTxn5578, LineTxnShort, LineTxn4061>>)
    /\ result["GetTemp"] = Err("Temps not found")
====
